---- MODULE Spec2Model ----
(***************************************************************************)
(* Model of the home page of the portfolio site (src/app/page.tsx) and of  *)
(* the static data modules it sits next to (data/socials, data/projects).  *)
(*                                                                         *)
(* Home computes                                                           *)
(*     allBlogs.slice(0, 2).sort((a, b) => date(a) > date(b) ? -1 : 1)     *)
(* and maps the result to the "Latest posts" list.  Arrays are JavaScript  *)
(* objects: slice allocates a new array, sort reorders its receiver in     *)
(* place.  The model keeps a two-cell store (the module-level array        *)
(* allBlogs and the array local to one call of Home) so that aliasing is   *)
(* visible.                                                                *)
(*                                                                         *)
(* The comparator never returns 0, so it is not a consistent comparator    *)
(* in the sense of ECMA-262 and the order of two documents with the same   *)
(* date is implementation-defined.  The page is a client component: it is  *)
(* evaluated by whatever engine hosts it.  The model therefore carries the *)
(* engine as part of the state, chosen at start-up among the two insertion *)
(* strategies that shipping engines use.                                   *)
(***************************************************************************)
EXTENDS Integers, Sequences, FiniteSets, TLC

(***************************************************************************)
(* Bounds                                                                  *)
(***************************************************************************)
MaxDocs == 3
MaxRenders == 3

(***************************************************************************)
(* Blog documents (contentlayer's allBlogs).  publishedAt is the ISO date  *)
(* of the front-matter, kept as <<year, month, day>>.  The slug is derived *)
(* from the file name, hence unique in a collection.                       *)
(***************************************************************************)
FormatDoc == [slug |-> "format-nestjs-response", publishedAt |-> <<2024, 4, 28>>]

SerializeDoc == [slug |-> "serialize-response-nestjs", publishedAt |-> <<2024, 4, 30>>]

Slugs == {"format-nestjs-response", "serialize-response-nestjs", "post-a", "post-b"}

PublishDates == {<<2024, 4, 28>>, <<2024, 4, 30>>, <<2024, 5, 1>>}

Docs == [slug : Slugs, publishedAt : PublishDates]

\* The two JavaScript engines' strategies for Array.prototype.sort.
Engines == {"pivotFirst", "leftFirst"}

VARIABLES allBlogs, blogs, prevBlogs, latestPosts, socialLinks, renders, engine,
          SOCIALS, WEB_APPS, TOOLS

vars == <<allBlogs, blogs, prevBlogs, latestPosts, socialLinks, renders, engine,
          SOCIALS, WEB_APPS, TOOLS>>

(***************************************************************************)
(* Helpers on sequences                                                    *)
(***************************************************************************)
Min(a, b) == IF a < b THEN a ELSE b

Max(a, b) == IF a > b THEN a ELSE b

Range(s) == {s[i] : i \in DOMAIN s}

Reverse(s) == [i \in 1..Len(s) |-> s[Len(s) + 1 - i]]

\* s with x inserted so that it becomes element number pos + 1 (pos is 0-based)
InsertAt(s, pos, x) == SubSeq(s, 1, pos) \o <<x>> \o SubSeq(s, pos + 1, Len(s))

(***************************************************************************)
(* new Date(publishedAt): the time value of an ISO calendar date.  The     *)
(* front-matter dates carry no time of day, so the time value is kept in   *)
(* whole days since 1970-01-01 (the millisecond value divided by           *)
(* 86400000), computed from the civil date as the engine does.             *)
(***************************************************************************)
NewDate(p) ==
  LET y   == IF p[2] <= 2 THEN p[1] - 1 ELSE p[1]
      era == y \div 400
      yoe == y - era * 400
      mp  == IF p[2] > 2 THEN p[2] - 3 ELSE p[2] + 9
      doy == ((153 * mp + 2) \div 5) + p[3] - 1
      doe == yoe * 365 + (yoe \div 4) - (yoe \div 100) + doy
  IN era * 146097 + doe - 719468

(***************************************************************************)
(* The comparator handed to sort (page.tsx, lines 12-17): -1 when a is     *)
(* strictly later than b, 1 in every other case, equal dates included.     *)
(***************************************************************************)
CompareAscending(a, b) ==
  IF NewDate(a.publishedAt) < NewDate(b.publishedAt) THEN -1 ELSE 1

Compare(a, b) ==
  IF NewDate(a.publishedAt) > NewDate(b.publishedAt) THEN -1 ELSE 1

(***************************************************************************)
(* Array.prototype.slice(start, end) on the array held in cell ref of the  *)
(* store: a NEW array (cell "local") with the elements start .. end-1,     *)
(* relative indices clamped as in ECMA-262; the receiver is untouched.     *)
(* The result is the new store and the reference of the returned array.    *)
(***************************************************************************)
RelativeIndex(i, len) == IF i < 0 THEN Max(len + i, 0) ELSE Min(i, len)

\* both indices one too far: the selection starts at the second element
SliceFromOne(store, ref, start, end) ==
  LET len == Len(store[ref])
      k   == RelativeIndex(start + 1, len)
      fin == RelativeIndex(end + 1, len)
  IN [store |-> [store EXCEPT !.local = SubSeq(store[ref], k + 1, fin)],
      ref   |-> "local"]

SliceInclusiveEnd(store, ref, start, end) ==
  LET len == Len(store[ref])
      k   == RelativeIndex(start, len)
      fin == RelativeIndex(end + 1, len)
  IN [store |-> [store EXCEPT !.local = SubSeq(store[ref], k + 1, fin)],
      ref   |-> "local"]

\* splice instead of slice: the elements are removed from the receiver
SliceRemoving(store, ref, start, end) ==
  LET len == Len(store[ref])
      k   == RelativeIndex(start, len)
      fin == RelativeIndex(end, len)
  IN [store |-> [store EXCEPT !.local = SubSeq(store[ref], k + 1, fin),
                              ![ref]  = SubSeq(store[ref], 1, k)
                                          \o SubSeq(store[ref], fin + 1, len)],
      ref   |-> "local"]

\* no copy: the "slice" is the receiver itself
SliceNoCopy(store, ref, start, end) == [store |-> store, ref |-> ref]

Slice(store, ref, start, end) ==
  LET len == Len(store[ref])
      k   == RelativeIndex(start, len)
      fin == RelativeIndex(end, len)
  IN [store |-> [store EXCEPT !.local = SubSeq(store[ref], k + 1, fin)],
      ref   |-> "local"]

(***************************************************************************)
(* Array.prototype.sort(comparefn), engine "pivotFirst" (V8): for fewer    *)
(* than 64 elements, the initial run is found by comparing each element    *)
(* with its predecessor, comparefn(later, earlier), and reversed when      *)
(* strictly descending; the remaining elements enter by binary insertion,  *)
(* comparefn(pivot, element).                                              *)
(***************************************************************************)
RECURSIVE RunEnd(_, _, _)
RunEnd(a, idx, descending) ==
  IF idx > Len(a) THEN Len(a)
  ELSE LET order == Compare(a[idx], a[idx - 1])
       IN IF (descending /\ order >= 0) \/ (~descending /\ order < 0)
          THEN idx - 1
          ELSE RunEnd(a, idx + 1, descending)

CountAndMakeRun(a) ==
  IF Len(a) < 2 THEN [array |-> a, run |-> Len(a)]
  ELSE LET descending == Compare(a[2], a[1]) < 0
           run        == RunEnd(a, 3, descending)
       IN [array |-> IF descending
                     THEN Reverse(SubSeq(a, 1, run)) \o SubSeq(a, run + 1, Len(a))
                     ELSE a,
           run   |-> run]

RECURSIVE BinaryPosition(_, _, _, _)
BinaryPosition(s, pivot, left, right) ==
  IF left >= right THEN left
  ELSE LET mid == left + ((right - left) \div 2)
       IN IF Compare(pivot, s[mid + 1]) < 0
          THEN BinaryPosition(s, pivot, left, mid)
          ELSE BinaryPosition(s, pivot, mid + 1, right)

RECURSIVE BinaryInsertionSort(_, _)
BinaryInsertionSort(a, start) ==
  IF start > Len(a) THEN a
  ELSE LET sorted == SubSeq(a, 1, start - 1)
           pos    == BinaryPosition(sorted, a[start], 0, start - 1)
       IN BinaryInsertionSort(
            InsertAt(sorted, pos, a[start]) \o SubSeq(a, start + 1, Len(a)),
            start + 1)

SortPivotFirst(a) ==
  LET r == CountAndMakeRun(a) IN BinaryInsertionSort(r.array, r.run + 1)

(***************************************************************************)
(* Array.prototype.sort(comparefn), engine "leftFirst" (SpiderMonkey):     *)
(* short arrays are sorted by linear insertion; each element moves left    *)
(* past its predecessors until comparefn(predecessor, element) <= 0.       *)
(***************************************************************************)
RECURSIVE LinearPosition(_, _, _)
LinearPosition(s, item, j) ==
  IF j = 0 THEN 0
  ELSE IF Compare(s[j], item) <= 0 THEN j
       ELSE LinearPosition(s, item, j - 1)

RECURSIVE InsertionSort(_, _)
InsertionSort(a, i) ==
  IF i > Len(a) THEN a
  ELSE LET sorted == SubSeq(a, 1, i - 1)
           pos    == LinearPosition(sorted, a[i], i - 1)
       IN InsertionSort(
            InsertAt(sorted, pos, a[i]) \o SubSeq(a, i + 1, Len(a)),
            i + 1)

SortLeftFirst(a) == InsertionSort(a, 2)

\* the call to sort left out
SortOmitted(store, ref, eng) == [store |-> store, ref |-> ref]

\* sort is in place: the receiver's cell is rewritten and its reference returned
Sort(store, ref, eng) ==
  [store |-> [store EXCEPT ![ref] = IF eng = "pivotFirst"
                                    THEN SortPivotFirst(store[ref])
                                    ELSE SortLeftFirst(store[ref])],
   ref   |-> ref]

(***************************************************************************)
(* The static data modules.  The arrays are module-level values that no    *)
(* code writes; they are part of the state and every action leaves them    *)
(* unchanged.  A string of the source is a sequence of UTF-16 code units.   *)
(* The parser takes no character beyond U+00FF in a string literal, so the *)
(* one string that has such characters, the second tool's title, is given  *)
(* as the sequence of its nine code units (U+0906 = 2310, U+091C = 2332);  *)
(* every other string is a literal.                                        *)
(***************************************************************************)
SOCIALS_LITERAL ==
  <<
   [label |-> "GitHub", href |-> "https://github.com/sharmaketann", icon |-> "GitHubIcon"],
   [label |-> "X", href |-> "https://x.com/sharmaketann", icon |-> "XIcon"],
   [label |-> "LinkedIn", href |-> "https://www.linkedin.com/in/sharmaketann", icon |-> "LinkedInIcon"]
  >>

WEB_APPS_LITERAL ==
  <<
   [title |-> "Ginger Fresh°",
    tags |-> <<"React", "Redux Toolkit", "Nodejs", "MongoDB", "ExpressJs">>,
    description |-> "Designed and developed a seamless e-commerce website using the MERN Stack, delivering exceptional user experiences. Integrated robust security measures, including PAYPAL, to ensure safe transactions. Leveraged essential libraries such as bcrypt, axios, and react-bootstrap, along with JWT authentication,",
    thumbnail |-> "/_static/projects/gingerfresh.png",
    repo |-> "https://github.com/Sharmaketann/Ginger",
    external |-> "https://gingerfreshens.web.app/"],
   [title |-> "Times of College°",
    repo |-> "https://github.com/Sharmaketann/Timesofcollege",
    external |-> "https://master.d15fgioem7z8jk.amplifyapp.com/",
    thumbnail |-> "/_static/projects/college.png",
    description |-> "Times of College, is a modern, responsive landing page. It likely serves as a platform for college-related content, integrating features like email sending through EmailJS. The design focuses on a clean and user-friendly interface built with tools such as React, JavaScript, and GSAP for smooth animations and interactions.",
    tags |-> <<"React", "Javascript", "Axios", "GSAP", "EmailJs">>],
   [title |-> "Netflix Clone°",
    repo |-> "https://github.com/Sharmaketann/NetFlix/",
    external |-> "https://net-flixx.web.app/",
    demo |-> "",
    thumbnail |-> "/_static/projects/netflix.png",
    description |-> "The website Net Flixx is a React-based application designed to showcase a streaming or media-related platform. It likely includes dynamic content and interactive elements, but the full functionality depends on JavaScript being enabled. The site seems optimized for delivering a seamless user experience with features like API integration and a modern UI framework.",
    tags |-> <<"Reactjs", "API", "MOVIEDB", "AXIOS">>],
   [title |-> "Christ News°",
    repo |-> "https://github.com/Sharmaketann/Christ-News",
    external |-> "https://christ-news-aa213.web.app/",
    thumbnail |-> "/_static/projects/christ.png",
    description |-> "The Christ News website serves as a news and information platform for Christ College. It features updates on college activities, moral and spiritual guidance, and messages from the administration, such as the director's thoughts on education and leadership. The site also highlights testimonials from alumni, offering insights into the Christ College experience. Its design focuses on fostering a community built on the college's motto, Enlighten to Excel.",
    tags |-> <<"Typescript", "React", "Nodejs", "MongoDB", "Socket">>],
   [title |-> "Travel Bucket List°",
    repo |-> "https://github.com/Sharmaketann/Travel-Bucket-List",
    external |-> "https://travel-bucket-list.netlify.app/",
    thumbnail |-> "/_static/projects/travel.png",
    description |-> "The Travel Bucket List website is designed for users to create, organize, and track their travel goals. Built with modern technologies, it likely offers a user-friendly interface where users can add destinations to their list, mark places they've visited, and plan future trips. The platform is optimized for an engaging experience, though full functionality depends on JavaScript being enabled for interactive features.",
    tags |-> <<"Reactjs">>],
   [title |-> "Quotes°",
    repo |-> "https://github.com/Sharmaketann/Quote",
    external |-> "https://quotes-gist.netlify.app/",
    thumbnail |-> "/_static/projects/quote.png",
    description |-> "Random quotes generator with twitter shareable button",
    tags |-> <<"Reactjs", "Express", "Github Gist", "Github">>],
   [title |-> "Breaking Bad°",
    repo |-> "https://github.com/Sharmaketann/breakingbad",
    external |-> "https://breakingbadly.netlify.app/breakingbad/showcase4-dark",
    thumbnail |-> "/_static/projects/breaking.png",
    description |-> "Breaking Bad API showcasing the character profile upright using GSAP and horizontal scroll.",
    tags |-> <<"Javascript", "NextJs", "CSS", "SCSS", "Animation">>]
  >>

\* a tool entered without its description
TOOLS_LITERAL_Undescribed ==
  <<
   [title |-> "states-nepal",
    repo |-> "https://github.com/Sharmaketann/",
    external |-> "https://github.com/Sharmaketann/",
    techs |-> <<"npm-package">>]
  >>

TOOLS_LITERAL ==
  <<
   [title |-> "states-nepal",
    repo |-> "https://github.com/Sharmaketann/",
    external |-> "https://github.com/Sharmaketann/",
    description |-> "npm package to get the dataset about different administrative division of Nepal.",
    techs |-> <<"npm-package">>],
   [title |-> <<97, 97, 106, 97, 32, 40, 2310, 2332, 41>>,
    repo |-> "https://github.com/Sharmaketann/",
    external |-> "https://github.com/Sharmaketann/",
    description |-> "Cli tool to get today's nepali date, tithi, public events and current time.",
    techs |-> <<"npm-package">>],
   [title |-> "ApiHub",
    repo |-> "https://github.com/Sharmaketann/",
    external |-> "https://github.com/Sharmaketann/",
    description |-> "VS Code extension to get free third party api url on different categories.",
    techs |-> <<"vscode-extension">>],
   [title |-> "shitcommits",
    repo |-> "https://github.com/Sharmaketann/",
    external |-> "https://github.com/Sharmaketann/",
    description |-> "Cli tool to make git commits with not-so perfect messges.",
    techs |-> <<"npm-package">>]
  >>

(***************************************************************************)
(* The JSX of Home: one SocialLink per entry of SOCIALS, one list item     *)
(* per entry of blogs, each wrapping one Link to the post.                 *)
(***************************************************************************)
HrefStatic(blog) == "/blog/"

Href(blog) == "/blog/" \o blog.slug

\* the label handed over as the link target
SocialLinksHrefFromLabel(socials) ==
  [i \in 1..Len(socials) |->
     [key       |-> socials[i].label,
      ariaLabel |-> "Follow on " \o socials[i].label,
      href      |-> socials[i].label,
      icon      |-> socials[i].icon]]

SocialLinks(socials) ==
  [i \in 1..Len(socials) |->
     [key       |-> socials[i].label,
      ariaLabel |-> "Follow on " \o socials[i].label,
      href      |-> socials[i].href,
      icon      |-> socials[i].icon]]

\* the first entry of the listing left out of the list
LatestPostsSkippingFirst(bs) ==
  [i \in 1..(Len(bs) - 1) |->
     [key   |-> bs[i + 1].slug,
      links |-> <<Href(bs[i + 1])>>,
      card  |-> [blog |-> bs[i + 1], key |-> bs[i + 1].slug]]]

LatestPostsWithPlaceholder(bs) ==
  IF bs = <<>>
  THEN <<[key |-> "empty", links |-> <<>>, card |-> [blog |-> "none", key |-> "empty"]]>>
  ELSE [i \in 1..Len(bs) |->
          [key   |-> bs[i].slug,
           links |-> <<Href(bs[i])>>,
           card  |-> [blog |-> bs[i], key |-> bs[i].slug]]]

LatestPosts(bs) ==
  [i \in 1..Len(bs) |->
     [key   |-> bs[i].slug,
      links |-> <<Href(bs[i])>>,
      card  |-> [blog |-> bs[i], key |-> bs[i].slug]]]

(***************************************************************************)
(* Initial states: any collection of at most MaxDocs documents with        *)
(* pairwise distinct slugs, in any order, hosted by either engine; nothing *)
(* rendered yet.                                                           *)
(***************************************************************************)
UniqueSlugs(docs) ==
  \A i, j \in DOMAIN docs : i # j => docs[i].slug # docs[j].slug

Collections ==
  UNION {{c \in [1..n -> Docs] : UniqueSlugs(c)} : n \in 0..MaxDocs}

Init ==
  /\ allBlogs \in Collections
  /\ engine \in Engines
  /\ blogs = <<>>
  /\ prevBlogs = <<>>
  /\ latestPosts = <<>>
  /\ socialLinks = <<>>
  /\ renders = 0
  /\ SOCIALS = SOCIALS_LITERAL
  /\ WEB_APPS = WEB_APPS_LITERAL
  /\ TOOLS = TOOLS_LITERAL

(***************************************************************************)
(* Home(): one render of the page (page.tsx, lines 11-104).                *)
(***************************************************************************)
Home ==
  /\ renders < MaxRenders
  /\ LET sliced == Slice([allBlogs |-> allBlogs, local |-> <<>>], "allBlogs", 0, 2)
         sorted == Sort(sliced.store, sliced.ref, engine)
         result == sorted.store[sorted.ref]
     IN /\ allBlogs' = sorted.store.allBlogs
        /\ blogs' = result
        /\ latestPosts' = LatestPosts(result)
  /\ socialLinks' = SocialLinks(SOCIALS)
  /\ prevBlogs' = blogs
  /\ renders' = renders + 1
  /\ UNCHANGED <<engine, SOCIALS, WEB_APPS, TOOLS>>

Next == Home

Spec == Init /\ [][Next]_vars

(***************************************************************************)
(* Properties                                                              *)
(***************************************************************************)
Rendered == renders > 0

\* position of a document in the collection (slugs are unique)
PositionIn(docs, d) == CHOOSE k \in DOMAIN docs : docs[k].slug = d.slug

Listed(d) == \E k \in DOMAIN blogs : blogs[k].slug = d.slug

\* C1: the "Latest posts" listing is made of the 2 most recent documents of
\* the FULL collection: it has min(2, |allBlogs|) documents of the collection
\* and no document left out is strictly later than a listed one.
C1_LatestOfFullCollection ==
  Rendered =>
    /\ Len(blogs) = Min(2, Len(allBlogs))
    /\ \A k \in DOMAIN blogs : blogs[k] \in Range(allBlogs)
    /\ \A i \in DOMAIN allBlogs :
         ~Listed(allBlogs[i]) =>
           \A k \in DOMAIN blogs :
             NewDate(allBlogs[i].publishedAt) <= NewDate(blogs[k].publishedAt)

\* C2: the listing is sorted by publishedAt descending: each result is at
\* least as recent as the one after it.
C2_SortedDescending ==
  Rendered =>
    \A i \in 1..(Len(blogs) - 1) :
      NewDate(blogs[i].publishedAt) >= NewDate(blogs[i + 1].publishedAt)

\* the sort had to exchange the two documents
C2_Witness ==
  /\ Rendered
  /\ Len(blogs) = 2
  /\ NewDate(allBlogs[1].publishedAt) < NewDate(allBlogs[2].publishedAt)
  /\ blogs = <<allBlogs[2], allBlogs[1]>>

\* C3: the listing has exactly min(2, |allBlogs|) documents.
C3_LengthIsMin ==
  Rendered => Len(blogs) = Min(2, Len(allBlogs))

C3_Witness ==
  /\ Rendered
  /\ Len(allBlogs) = 3
  /\ Len(blogs) = 2

\* C4: stability: two listed documents with the same publishedAt appear in
\* the listing in the order they have in the collection.
C4_Stable ==
  Rendered =>
    \A i, j \in DOMAIN blogs :
      (i < j /\ blogs[i].publishedAt = blogs[j].publishedAt)
        => PositionIn(allBlogs, blogs[i]) < PositionIn(allBlogs, blogs[j])

\* C5: with the repository's two documents as the collection, in either
\* order, the listing is <<the 2024-04-30 entry, the 2024-04-28 entry>>.
C5_RepositoryDocuments ==
  (Rendered /\ allBlogs \in {<<FormatDoc, SerializeDoc>>, <<SerializeDoc, FormatDoc>>})
    => blogs = <<SerializeDoc, FormatDoc>>

C5_Witness ==
  /\ Rendered
  /\ allBlogs = <<FormatDoc, SerializeDoc>>
  /\ blogs = <<SerializeDoc, FormatDoc>>

\* C6: two successive renders over the same collection (in the same engine)
\* yield the same listing, equal dates included.
C6_Idempotent ==
  renders >= 2 => blogs = prevBlogs

C6_Witness ==
  /\ renders >= 2
  /\ Len(blogs) = 2
  /\ blogs[1].publishedAt = blogs[2].publishedAt
  /\ blogs = prevBlogs

\* C7: no step changes allBlogs: same elements, same order, after any
\* number of renders.
C7_InputUntouched == [][allBlogs' = allBlogs]_vars

\* a render whose sort reordered the copy while the collection kept its order
C7_Witness ==
  /\ Rendered
  /\ Len(allBlogs) >= 2
  /\ blogs = <<allBlogs[2], allBlogs[1]>>

\* C8: a render always completes with a sequence of documents and one list
\* item per document; on the empty collection the listing and the rendered
\* list are empty.
C8_NoErrorOutcome ==
  /\ renders < MaxRenders => ENABLED Home
  /\ Rendered =>
       /\ blogs \in Seq(Docs)
       /\ Len(latestPosts) = Len(blogs)
       /\ allBlogs = <<>> => (blogs = <<>> /\ latestPosts = <<>>)

C8_Witness ==
  /\ Rendered
  /\ allBlogs = <<>>
  /\ blogs = <<>>
  /\ latestPosts = <<>>

\* C9: slugs being unique in the collection, every rendered card has exactly
\* one link, to /blog/<slug of its document>, and no two cards share a key
\* or a link target.
C9_LinksKeyedBySlug ==
  (Rendered /\ UniqueSlugs(allBlogs)) =>
    /\ \A i \in DOMAIN latestPosts :
         /\ latestPosts[i].card.blog = blogs[i]
         /\ latestPosts[i].key = blogs[i].slug
         /\ Len(latestPosts[i].links) = 1
         /\ latestPosts[i].links[1] = "/blog/" \o blogs[i].slug
    /\ \A i, j \in DOMAIN latestPosts :
         i # j => /\ latestPosts[i].key # latestPosts[j].key
                  /\ latestPosts[i].links # latestPosts[j].links

C9_Witness ==
  /\ Rendered
  /\ Len(latestPosts) = 2
  /\ latestPosts[1].key = "serialize-response-nestjs"
  /\ latestPosts[1].links = <<"/blog/serialize-response-nestjs">>
  /\ latestPosts[2].links = <<"/blog/format-nestjs-response">>

\* C10: every record of WEB_APPS and TOOLS has a title, a description and a
\* tags field that is a sequence of strings; only repo, external and
\* thumbnail may be absent.
RequiredFields == {"title", "description", "tags"}

IsStringSeq(v) == \A i \in DOMAIN v : v[i] \in STRING

\* a string, as a literal or as its sequence of code units
IsText(v) == Len(v) >= 0

Conforms(r) ==
  /\ RequiredFields \subseteq DOMAIN r
  /\ IsText(r.title)
  /\ r.description \in STRING
  /\ IsStringSeq(r.tags)

C10_RecordsConform ==
  /\ \A i \in DOMAIN WEB_APPS : Conforms(WEB_APPS[i])
  /\ \A i \in DOMAIN TOOLS : Conforms(TOOLS[i])

\* C10, amended: every record has a title and a description; the tag list,
\* a sequence of strings, is the field tags in WEB_APPS and the field techs
\* in TOOLS; only repo, external and thumbnail may be absent.
C10_RecordsConformAmended ==
  /\ \A i \in DOMAIN WEB_APPS :
       LET r == WEB_APPS[i]
       IN /\ {"title", "description", "tags"} \subseteq DOMAIN r
          /\ IsText(r.title)
          /\ r.description \in STRING
          /\ IsStringSeq(r.tags)
          /\ Len(r.tags) >= 1
  /\ \A i \in DOMAIN TOOLS :
       LET r == TOOLS[i]
       IN /\ {"title", "description", "techs"} \subseteq DOMAIN r
          /\ "tags" \notin DOMAIN r
          /\ IsText(r.title)
          /\ r.description \in STRING
          /\ IsStringSeq(r.techs)
          /\ Len(r.techs) >= 1

\* the arrays as loaded: seven web apps, four tools, a tool tagged by techs
\* and without thumbnail
C10_Witness ==
  /\ Len(WEB_APPS) = 7
  /\ Len(TOOLS) = 4
  /\ TOOLS[1].techs = <<"npm-package">>
  /\ "thumbnail" \notin DOMAIN TOOLS[1]
  /\ WEB_APPS[5].tags = <<"Reactjs">>

Sign(n) == IF n < 0 THEN -1 ELSE IF n > 0 THEN 1 ELSE 0

\* C11: on the documents handed to the sort, the comparator answers 0 both
\* ways for two documents with the same publishedAt, and its verdicts are
\* antisymmetric: the sign of compare(a, b) is the opposite of the sign of
\* compare(b, a).
C11_ComparatorConsistent ==
  Rendered =>
    \A a, b \in Range(blogs) :
      a.slug # b.slug =>
        /\ a.publishedAt = b.publishedAt
             => (Compare(a, b) = 0 /\ Compare(b, a) = 0)
        /\ Sign(Compare(a, b)) = -Sign(Compare(b, a))

\* C12: Home renders exactly one SocialLink per entry of SOCIALS, in array
\* order, each with that entry's href and icon unchanged and keyed by its
\* label; the labels of SOCIALS are pairwise distinct.
C12_SocialsRenderedDirectly ==
  /\ \A i, j \in DOMAIN SOCIALS : i # j => SOCIALS[i].label # SOCIALS[j].label
  /\ Rendered =>
       /\ Len(socialLinks) = Len(SOCIALS)
       /\ \A i \in DOMAIN SOCIALS :
            /\ socialLinks[i].key = SOCIALS[i].label
            /\ socialLinks[i].href = SOCIALS[i].href
            /\ socialLinks[i].icon = SOCIALS[i].icon

C12_Witness ==
  /\ Rendered
  /\ Len(socialLinks) = 3
  /\ socialLinks[1].key = "GitHub"
  /\ socialLinks[2].href = "https://x.com/sharmaketann"
  /\ socialLinks[3].icon = "LinkedInIcon"

\* C13: the documents listed are exactly the first min(2, |allBlogs|)
\* entries of allBlogs: the listing is a permutation of that prefix, with no
\* document twice and none from beyond position 2.
Prefix == SubSeq(allBlogs, 1, Min(2, Len(allBlogs)))

C13_PermutationOfPrefix ==
  Rendered =>
    /\ Len(blogs) = Len(Prefix)
    /\ Range(blogs) = Range(Prefix)
    /\ \A i, j \in DOMAIN blogs : i # j => blogs[i] # blogs[j]
    /\ \A k \in DOMAIN allBlogs : k > 2 => ~Listed(allBlogs[k])

\* three documents, the third the most recent one, the first two exchanged
\* by the sort: the third is not listed
C13_Witness ==
  /\ Rendered
  /\ Len(allBlogs) = 3
  /\ NewDate(allBlogs[3].publishedAt) > NewDate(allBlogs[2].publishedAt)
  /\ NewDate(allBlogs[2].publishedAt) > NewDate(allBlogs[1].publishedAt)
  /\ blogs = <<allBlogs[2], allBlogs[1]>>

\* C14: the rendered list has exactly one item per document of blogs, in
\* the order of blogs: nothing is filtered or reordered between the sort
\* and the output.
C14_ListPreservesListing ==
  Rendered =>
    /\ Len(latestPosts) = Len(blogs)
    /\ \A i \in DOMAIN blogs : latestPosts[i].card.blog = blogs[i]

C14_Witness ==
  /\ Rendered
  /\ Len(blogs) = 2
  /\ Len(latestPosts) = 2
  /\ blogs[1] # blogs[2]
  /\ latestPosts[1].card.blog = blogs[1]
  /\ latestPosts[2].card.blog = blogs[2]

====
